---------------------------- MODULE Spec2Model ----------------------------
(***************************************************************************)
(* A model of fractal_name.py: the interactive loop of main(), the name    *)
(* encoder, the parameter derivation and escape-count loop of              *)
(* generate_fractal(), and the colour list of dynamic_color_map().         *)
(*                                                                         *)
(* Text is a sequence of Unicode code points.  Reals are kept exact:       *)
(* scale_y is held as twice its value, c_real and c_imag as a numerator    *)
(* over the sequence length, noise_factor in hundredths.  A grid cell's    *)
(* complex value is abstracted to what lines 46-47 read of it: how its     *)
(* magnitude compares with 1000, and whether it is the value 1000+0j that  *)
(* the clamp wrote.                                                        *)
(***************************************************************************)
EXTENDS Integers, Sequences, FiniteSets

VARIABLES
    pc,             \* position of main(): prompt, encode, generate, loop, gradient, display, save, exited, crashed
    line,           \* the line input() returned last
    name,           \* main's name: the line, stripped
    name_numbers,   \* main's name_numbers
    gen_numbers,    \* generate_fractal's local name_numbers (after the empty-input default)
    params,         \* the parameters generate_fractal derives
    Z,              \* per grid cell, the abstract complex value
    fractal,        \* per grid cell, the escape count
    i,              \* number of rounds of the loop completed
    first_skip,     \* history: per cell, the first round in which it was not counted (0: none)
    gradient_colors,\* the list dynamic_color_map builds
    stages,         \* history: the pipeline stages started for the current name
    inputs,         \* history: number of lines read
    files,          \* number of image files written under fractals/
    empties         \* history: number of consecutive empty lines read last

vars == <<pc, line, name, name_numbers, gen_numbers, params, Z, fractal, i,
          first_skip, gradient_colors, stages, inputs, files, empties>>

----------------------------------------------------------------------------
(* Bounds of the model *)

\* longest input line drawn from Alphabet
MaxLen == 2
\* number of grid cells followed (size * size in the code, 250000 by default)
NumCells == 1
\* rounds of the loop (the code's default is 100)
Iterations == 3
\* number of lines main reads
MaxInputs == 2
\* longest numeric sequence handed directly to the two functions
MaxSeqLen == 2

----------------------------------------------------------------------------
(* Characters: str.isspace, str.isalpha, str.upper, str.lower on the code  *)
(* points the model's inputs use.                                          *)

\* ' ' and TAB are whitespace
isspace(c) == c \in {9, 32}

\* A-Z, a-z, and the non-ASCII letters U+00AA, U+00DF, U+00E9, U+02B7, U+2434A
isalpha(c) == c \in (65..90) \cup (97..122) \cup {170, 223, 233, 695, 148298}

\* str.upper of one character: a string, since U+00DF uppercases to "SS"
upper(c) ==
    IF c \in 97..122 THEN <<c - 32>>
    ELSE IF c = 233 THEN <<201>>
    ELSE IF c = 223 THEN <<83, 83>>
    ELSE <<c>>

\* str.lower of one character
lower_char(c) ==
    IF c \in 65..90 THEN c + 32
    ELSE IF c = 201 THEN 233
    ELSE c

\* mutant: the comparison without .lower()
lower_missing(s) == s

lower(s) == [k \in 1..Len(s) |-> lower_char(s[k])]

RECURSIVE lstrip(_)
lstrip(s) == IF s # <<>> /\ isspace(Head(s)) THEN lstrip(Tail(s)) ELSE s

RECURSIVE rstrip(_)
rstrip(s) ==
    IF s # <<>> /\ isspace(s[Len(s)]) THEN rstrip(SubSeq(s, 1, Len(s) - 1)) ELSE s

strip(s) == rstrip(lstrip(s))

\* the literal "exit"
EXIT == <<101, 120, 105, 116>>

----------------------------------------------------------------------------
(* Name encoder *)

\* ord() of a string: defined for one character only
ord_ok(s) == Len(s) = 1

letter_to_number(letter) == upper(letter)[1] - 65 + 1

\* the list comprehension raises TypeError when ord() is given two characters
name_to_numbers_raises(s) ==
    \E k \in 1..Len(s) : isalpha(s[k]) /\ ~ord_ok(upper(s[k]))

RECURSIVE name_to_numbers(_)
name_to_numbers(s) ==
    IF s = <<>> THEN <<>>
    ELSE IF isalpha(Head(s))
         THEN <<letter_to_number(Head(s))>> \o name_to_numbers(Tail(s))
         ELSE name_to_numbers(Tail(s))

----------------------------------------------------------------------------
(* Parameter derivation, lines 18-29 *)

RECURSIVE sum(_)
sum(s) == IF s = <<>> THEN 0 ELSE Head(s) + sum(Tail(s))

\* mutant: the slice [:-1] for [::-1]
reversed_typo(s) == SubSeq(s, 1, Len(s) - 1)

\* s[::-1]
reversed(s) == [k \in 1..Len(s) |-> s[Len(s) + 1 - k]]

\* s[::2]: 0-based indices 0, 2, 4, ...
even_slice(s) == [k \in 1..((Len(s) + 1) \div 2) |-> s[2 * k - 1]]

\* s[1::2]: 0-based indices 1, 3, 5, ...
odd_slice(s) == [k \in 1..(Len(s) \div 2) |-> s[2 * k]]

\* mutant: no default for the empty sequence
default_missing(s) == s

\* lines 18-19
default_if_empty(s) == IF s = <<>> THEN <<1>> ELSE s

derive(s) ==
    [ scale_x    |-> (sum(s) % 10) + 1,
      scale_y_x2 |-> ((sum(reversed(s)) % 10) + 1) * 3,  \* twice scale_y
      c_real_num |-> sum(even_slice(s)),               \* c_real = c_real_num / divisor
      c_imag_num |-> sum(odd_slice(s)),                \* c_imag = c_imag_num / divisor
      divisor    |-> Len(s),
      noise_100  |-> sum(s) % 5,                       \* noise_factor = noise_100 / 100
      extra_arg  |-> sum(s) % 50 ]                     \* extra_term = sin(extra_arg)

NoParams ==
    [ scale_x |-> 0, scale_y_x2 |-> 0, c_real_num |-> 0, c_imag_num |-> 0,
      divisor |-> 0, noise_100 |-> 0, extra_arg |-> 0 ]

----------------------------------------------------------------------------
(* The escape-count loop, lines 43-47 *)

Cells == 1..NumCells

\* c_imag / 10, the imaginary part of C, compared with a whole number y
imag_C_le(p, y) == p.c_imag_num <= 10 * y * p.divisor
imag_C_ge(p, y) == p.c_imag_num >= 10 * y * p.divisor

\* Im Z up to which noise_factor * |sin Z| <= 0.04 * cosh(17) < 483100,
\* too small to bring a value of magnitude 10^6 - 1 or more back under 1000
SafeImag == 17
\* Im Z from which noise_factor * |sin Z| >= 0.01 * sinh(25) > 3 * 10^8,
\* larger than any 10^6 + C + extra_term by far more than 1000
FarImag == 25

(* Lines 44-45 on one cell: how abs(Z) compares with 1000 afterwards.  The  *)
(* cell states are "below" (abs(Z) < 1000), "clamped" (the value 1000+0j    *)
(* written by line 46, for which neither comparison holds) and "nan"; a     *)
(* magnitude of exactly 1000 is taken to arise through the clamp only.      *)
(* A clamped cell becomes 10^6 + C + extra_term, real part >= 10^6 - 1 and  *)
(* imaginary part c_imag/10, before the sine term is added: it stays above  *)
(* 1000 unless the sine term is of the same size, 17 < c_imag/10 < 25.  A   *)
(* cell below 1000 may end anywhere (sin of a complex value overflows to    *)
(* infinity from |Im Z| near 710, and infinity times 0 is not-a-number).    *)
evolve(z, p) ==
    IF z = "nan" THEN {"nan"}
    ELSE IF z = "clamped"
         THEN IF imag_C_ge(p, FarImag) THEN {"gt", "nan"}
              ELSE IF p.noise_100 = 0 \/ imag_C_le(p, SafeImag) THEN {"gt"}
              ELSE {"lt", "gt"}
    ELSE {"lt", "gt", "nan"}

\* line 46: np.where(abs(Z) > 1000, 1000, Z)
clamp(m) ==
    IF m = "gt" THEN "clamped"
    ELSE IF m = "lt" THEN "below"
    ELSE "nan"

\* mutant: abs(Z) added instead of the comparison's result
mask_magnitude(z) == IF z = "below" THEN 1 ELSE 1000

\* line 47: the mask abs(Z) < 1000, added to the count as 0 or 1
mask(z) == IF z = "below" THEN 1 ELSE 0

----------------------------------------------------------------------------
(* dynamic_color_map, lines 51-68 *)

HexDigits == <<"0", "1", "2", "3", "4", "5", "6", "7", "8", "9",
               "a", "b", "c", "d", "e", "f">>

\* format(n, "x") for n >= 0: lowercase hexadecimal, no padding
RECURSIVE hex(_)
hex(n) ==
    IF n < 16 THEN <<HexDigits[n + 1]>>
    ELSE hex(n \div 16) \o <<HexDigits[(n % 16) + 1]>>

\* format(n, "02x"): at least two characters, padded with "0"
format_02x(n) == IF Len(hex(n)) < 2 THEN <<"0">> \o hex(n) ELSE hex(n)

\* mutant: the sum not reduced modulo 256
base_color_unreduced(s) == sum(s)

\* line 53
base_color(s) == sum(s) % 256

\* lines 56-66; int(base_color * 0.5) truncates base_color / 2
gradient(s) ==
    LET b == base_color(s) IN
    << <<"#">> \o format_02x(b \div 2) \o <<"0", "0">> \o format_02x(b),
       <<"#", "4", "B", "0", "0">> \o format_02x((b + 80) % 256),
       <<"#", "6", "A", "0", "D">> \o format_02x((b + 60) % 256),
       <<"#", "8", "0", "0", "0">> \o format_02x((b + 40) % 256),
       <<"#", "0", "0", "0", "0">> \o format_02x((b + 100) % 256),
       <<"#", "4", "6", "8", "2", "B", "4">>,
       <<"#", "8", "7", "C", "E", "E", "B">>,
       <<"#", "0", "0", "0", "0", "8", "B">>,
       <<"#", "E", "6", "E", "6", "F", "A">> >>

----------------------------------------------------------------------------
(* main, lines 87-108 *)

\* the characters lines are drawn from: ' ' '1' 'e' 'x' U+00E9
Alphabet == {32, 49, 101, 120, 233}

Strings(n) == UNION {[1..k -> Alphabet] : k \in 0..n}

\* further lines: spellings of exit, near misses, tabs, "E", U+00DF alone and
\* after "e", and a name of four letters of which three are not ASCII
\* ("A", U+00AA, U+2434A, U+02B7)
SampleLines ==
    { <<101, 120, 105, 116>>, <<69, 88, 73, 84>>, <<69, 120, 105, 116>>,
      <<32, 101, 88, 105, 84, 32>>, <<9, 101, 120, 105, 116>>,
      <<101, 120, 105, 116, 49>>, <<101, 120, 32, 105, 116>>, <<101, 120, 105>>,
      <<9>>, <<9, 32, 9>>, <<69>>, <<223>>, <<101, 223>>,
      <<65, 170, 148298, 695>> }

InputLines == Strings(MaxLen) \cup SampleLines

ZeroField == [c \in Cells |-> 0]
StartGrid == [c \in Cells |-> "below"]

\* mutant: the error is caught and the loop goes on
on_save_error_caught == "prompt"

\* what line 108's call does when the file cannot be written: nothing catches it
on_save_error == "crashed"

\* mutant: the sequence generate_fractal worked on is handed over
color_map_argument_coerced == gen_numbers

\* the argument of line 104's call
color_map_argument == name_numbers

Init ==
    /\ pc = "prompt"
    /\ line = <<>>
    /\ name = <<>>
    /\ name_numbers = <<>>
    /\ gen_numbers = <<>>
    /\ params = NoParams
    /\ Z = StartGrid
    /\ fractal = ZeroField
    /\ i = 0
    /\ first_skip = ZeroField
    /\ gradient_colors = <<>>
    /\ stages = <<>>
    /\ inputs = 0
    /\ files = 0
    /\ empties = 0

\* mutant: the empty name is not sent back to the prompt
after_input_no_continue(n) == IF lower(n) = EXIT THEN "exited" ELSE "encode"

\* where lines 90-96 lead for a stripped line
after_input(n) ==
    IF lower(n) = EXIT THEN "exited"
    ELSE IF n = <<>> THEN "prompt"
    ELSE "encode"

\* lines 89-96: read a line, strip it, exit or prompt again or go on
Input ==
    /\ pc = "prompt"
    /\ inputs < MaxInputs
    /\ \E l \in InputLines :
         /\ line' = l
         /\ name' = strip(l)
         /\ pc' = after_input(strip(l))
         /\ empties' = IF after_input(strip(l)) = "prompt" THEN empties + 1 ELSE 0
    /\ inputs' = inputs + 1
    /\ UNCHANGED files
    /\ name_numbers' = <<>>
    /\ gen_numbers' = <<>>
    /\ params' = NoParams
    /\ Z' = StartGrid
    /\ fractal' = ZeroField
    /\ i' = 0
    /\ first_skip' = ZeroField
    /\ gradient_colors' = <<>>
    /\ stages' = <<>>

\* line 99
Encode ==
    /\ pc = "encode"
    /\ stages' = Append(stages, "encode")
    /\ IF name_to_numbers_raises(name)
       THEN pc' = "crashed" /\ UNCHANGED name_numbers
       ELSE pc' = "generate" /\ name_numbers' = name_to_numbers(name)
    /\ UNCHANGED <<line, name, gen_numbers, params, Z, fractal, i, first_skip,
                   gradient_colors, inputs, files, empties>>

\* line 101, lines 16-41: the call up to the loop
GenerateEnter ==
    /\ pc = "generate"
    /\ stages' = Append(stages, "generate")
    /\ gen_numbers' = default_if_empty(name_numbers)
    /\ params' = derive(default_if_empty(name_numbers))
    /\ Z' = StartGrid
    /\ fractal' = ZeroField
    /\ i' = 0
    /\ first_skip' = ZeroField
    /\ pc' = "loop"
    /\ UNCHANGED <<line, name, name_numbers, gradient_colors, inputs, files, empties>>

\* lines 43-47: one round, all cells in lock-step
Round ==
    /\ pc = "loop"
    /\ i < Iterations
    /\ \E m \in [Cells -> {"lt", "gt", "nan"}] :
         /\ \A c \in Cells : m[c] \in evolve(Z[c], params)
         /\ Z' = [c \in Cells |-> clamp(m[c])]
         /\ fractal' = [c \in Cells |-> fractal[c] + mask(clamp(m[c]))]
         /\ first_skip' = [c \in Cells |->
                IF first_skip[c] = 0 /\ mask(clamp(m[c])) = 0 THEN i + 1
                ELSE first_skip[c]]
    /\ i' = i + 1
    /\ UNCHANGED <<pc, line, name, name_numbers, gen_numbers, params,
                   gradient_colors, stages, inputs, files, empties>>

\* line 49: the loop is over, the field is returned to main; Z goes out of
\* scope with the call
GenerateReturn ==
    /\ pc = "loop"
    /\ i = Iterations
    /\ pc' = "gradient"
    /\ Z' = StartGrid
    /\ first_skip' = ZeroField
    /\ UNCHANGED <<line, name, name_numbers, gen_numbers, params, fractal, i,
                   gradient_colors, stages, inputs, files, empties>>

\* line 104
DynamicColorMap ==
    /\ pc = "gradient"
    /\ stages' = Append(stages, "gradient")
    /\ gradient_colors' = gradient(color_map_argument)
    /\ pc' = "display"
    /\ UNCHANGED <<line, name, name_numbers, gen_numbers, params, Z, fractal, i,
                   first_skip, inputs, files, empties>>

\* line 107
PlotFractal ==
    /\ pc = "display"
    /\ stages' = Append(stages, "display")
    /\ pc' = "save"
    /\ UNCHANGED <<line, name, name_numbers, gen_numbers, params, Z, fractal, i,
                   first_skip, gradient_colors, inputs, files, empties>>

\* line 108: makedirs and imsave succeed, or one of them raises OSError
AutoSaveFractal ==
    /\ pc = "save"
    /\ stages' = Append(stages, "save")
    /\ \E written \in BOOLEAN :
         /\ pc' = IF written THEN "prompt" ELSE on_save_error
         /\ files' = IF written THEN files + 1 ELSE files
    /\ UNCHANGED <<line, name, name_numbers, gen_numbers, params, Z, fractal, i,
                   first_skip, gradient_colors, inputs, empties>>

Next ==
    \/ Input
    \/ Encode
    \/ GenerateEnter
    \/ Round
    \/ GenerateReturn
    \/ DynamicColorMap
    \/ PlotFractal
    \/ AutoSaveFractal

Spec == Init /\ [][Next]_vars

----------------------------------------------------------------------------
(* The two functions called directly on bounded numeric sequences *)

\* the letter values 1..26, and two values non-ASCII letters produce
FnValues == (1..26) \cup {137, 631}

FnSeqs == UNION {[1..k -> FnValues] : k \in 0..MaxSeqLen}

InitParams ==
    /\ pc \in {"generate", "gradient"}
    /\ name_numbers \in FnSeqs
    /\ line = <<>>
    /\ name = <<>>
    /\ gen_numbers = <<>>
    /\ params = NoParams
    /\ Z = StartGrid
    /\ fractal = ZeroField
    /\ i = 0
    /\ first_skip = ZeroField
    /\ gradient_colors = <<>>
    /\ stages = <<>>
    /\ inputs = 0
    /\ files = 0
    /\ empties = 0

NextParams ==
    \/ GenerateEnter
    \/ DynamicColorMap

SpecParams == InitParams /\ [][NextParams]_vars

----------------------------------------------------------------------------
(* Vocabulary of the properties *)

\* the sum of a sequence, by index
RECURSIVE total_upto(_, _)
total_upto(s, k) == IF k = 0 THEN 0 ELSE s[k] + total_upto(s, k - 1)

Total(s) == total_upto(s, Len(s))

\* only spaces and tabs (the empty line included)
Blank(s) == \A k \in 1..Len(s) : s[k] \in {9, 32}

\* e/E x/X i/I t/T
ExitSpellings ==
    {<<a, b, c, d>> : a \in {101, 69}, b \in {120, 88}, c \in {105, 73}, d \in {116, 84}}

\* a spelling of exit between blanks
IsExitSpelling(l) ==
    \E a \in 1..Len(l) :
        /\ a + 3 <= Len(l)
        /\ SubSeq(l, a, a + 3) \in ExitSpellings
        /\ Blank(SubSeq(l, 1, a - 1))
        /\ Blank(SubSeq(l, a + 4, Len(l)))

HasLetter(s) == \E k \in 1..Len(s) : isalpha(s[k])

LetterCount(s) == Cardinality({k \in 1..Len(s) : isalpha(s[k])})

HexChars == {"0", "1", "2", "3", "4", "5", "6", "7", "8", "9",
             "a", "b", "c", "d", "e", "f", "A", "B", "C", "D", "E", "F"}

\* "#" and six hexadecimal digits
IsHexColor(c) == Len(c) = 7 /\ c[1] = "#" /\ \A k \in 2..7 : c[k] \in HexChars

\* the value of a lowercase hexadecimal digit
DigitValue(d) == CHOOSE v \in 0..15 : HexDigits[v + 1] = d

\* base_color as the first colour's blue channel shows it
ShownBase == 16 * DigitValue(gradient_colors[1][6]) + DigitValue(gradient_colors[1][7])

Pipeline == <<"encode", "generate", "gradient", "display", "save">>

IsPrefix(s, t) == Len(s) <= Len(t) /\ s = SubSeq(t, 1, Len(s))

\* the stage named has been started for the current name
Started(stage) == \E k \in 1..Len(stages) : stages[k] = stage

----------------------------------------------------------------------------
(* Properties *)

(* C1: for every name, name_to_numbers returns without raising, with one   *)
(* integer per alphabetic character of the name, each in 1..26.            *)
C1_EncoderTotalInRange ==
    Started("encode") =>
        /\ ~(pc = "crashed" /\ stages = <<"encode">>)
        /\ Len(name_numbers) = LetterCount(name)
        /\ \A k \in 1..Len(name_numbers) : name_numbers[k] \in 1..26

(* C2: for a non-empty sequence of values in 1..26, scale_x is             *)
(* (sum mod 10) + 1 and lies in 1..10, scale_y is 1.5 * scale_x and lies   *)
(* in [1.5, 16.5], and noise_factor * 100 is a whole number in 0..4.       *)
C2_DerivedParameters ==
    ( /\ pc = "loop"
      /\ name_numbers # <<>>
      /\ \A k \in 1..Len(name_numbers) : name_numbers[k] \in 1..26 )
    => /\ params.scale_x = (Total(name_numbers) % 10) + 1
       /\ params.scale_x \in 1..10
       /\ params.scale_y_x2 = 3 * params.scale_x
       /\ params.scale_y_x2 \in 3..33
       /\ params.noise_100 \in 0..4

\* "AB": scale_x 4, scale_y 6.0, noise_factor 0.03
C2_Witness ==
    /\ pc = "loop"
    /\ name_numbers = <<1, 2>>
    /\ params.scale_x = 4
    /\ params.scale_y_x2 = 12
    /\ params.noise_100 = 3

(* C3: after round k every cell's count is in 0..k, and k never exceeds    *)
(* iterations, whatever the cells' values are (clamped and not-a-number    *)
(* included); so the returned field holds values in 0..iterations.         *)
C3_CountsWithinRounds ==
    /\ i \in 0..Iterations
    /\ \A c \in Cells : fractal[c] \in 0..i

\* the loop has run to its end with a cell that turned not-a-number
C3_Witness ==
    /\ pc = "loop"
    /\ i = Iterations
    /\ \E c \in Cells : Z[c] = "nan" /\ fractal[c] \in 1..(i - 1)

(* C4: a name without alphabetic characters encodes to the empty sequence  *)
(* and generate_fractal derives its parameters from [1]; the divisor of    *)
(* c_real and c_imag is the length of a non-empty sequence on every path.  *)
C4_FallbackBeforeDivision ==
    Started("generate") =>
        /\ params.divisor >= 1
        /\ params.divisor = Len(gen_numbers)
        /\ (~HasLetter(name) => name_numbers = <<>> /\ gen_numbers = <<1>>)

\* the name "1"
C4_Witness ==
    /\ Started("generate")
    /\ name = <<49>>
    /\ name_numbers = <<>>
    /\ gen_numbers = <<1>>
    /\ params.divisor = 1

(* C5: for every sequence, the empty one included, dynamic_color_map's     *)
(* list has 9 entries, each "#" followed by exactly six hexadecimal        *)
(* digits (so every channel is in 0..255).                                 *)
C5_GradientWellFormed ==
    Started("gradient") =>
        /\ Len(gradient_colors) = 9
        /\ \A k \in 1..9 : IsHexColor(gradient_colors[k])

\* a sum above 255: 137 + 137 = 274, base_color 18, "#090012"
C5_Witness ==
    /\ Started("gradient")
    /\ name_numbers = <<137, 137>>
    /\ gradient_colors[1] = <<"#", "0", "9", "0", "0", "1", "2">>

(* C6: a line that is a spelling of exit in any letter case, between       *)
(* blanks, ends the loop at once: no stage runs for it and nothing         *)
(* happens afterwards, no further prompt in particular.                    *)
C6_ExitTerminates ==
    (inputs > 0 /\ IsExitSpelling(line)) =>
        /\ pc = "exited"
        /\ stages = <<>>
        /\ ~ENABLED Next

\* " eXiT " entered as the second line
C6_Witness ==
    /\ pc = "exited"
    /\ line = <<32, 101, 88, 105, 84, 32>>
    /\ inputs = 2

(* C7: a line that is blank is followed by a new prompt: no stage runs for *)
(* it, nothing is generated, no file is written, and main neither exits    *)
(* nor fails; so also after several blank lines in a row.                  *)
C7_EmptyLineReprompts ==
    (inputs > 0 /\ Blank(line)) =>
        /\ pc = "prompt"
        /\ stages = <<>>
        /\ fractal = ZeroField
        /\ gradient_colors = <<>>
        /\ empties >= 1
        /\ (inputs < MaxInputs => ENABLED Input)

\* two blank lines in a row, no file written
C7_Witness ==
    /\ pc = "prompt"
    /\ empties >= 2
    /\ files = 0

(* C8, as claimed: the gradient's base_color is computed from the sequence *)
(* the Field Parameters were derived from, the fallback [1] included.      *)
C8_GradientFromCoercedSequence ==
    Started("gradient") => ShownBase = Total(gen_numbers) % 256

(* C8, amended: the gradient's base_color is computed from the sequence    *)
(* name_to_numbers returned, which is the sequence the Field Parameters    *)
(* were derived from unless it is empty; for a name without alphabetic     *)
(* characters the parameters come from [1] and base_color from the empty   *)
(* sequence, which gives 0.                                                *)
C8_GradientFromEncodedSequence ==
    Started("gradient") =>
        /\ ShownBase = Total(name_numbers) % 256
        /\ gen_numbers = IF name_numbers = <<>> THEN <<1>> ELSE name_numbers
        /\ (~HasLetter(name) => ShownBase = 0 /\ gen_numbers = <<1>>)

\* the name "1": parameters from [1], base_color 0
C8_Witness ==
    /\ Started("gradient")
    /\ name = <<49>>
    /\ gen_numbers = <<1>>
    /\ params.scale_x = 2
    /\ ShownBase = 0

(* C9: the stages of a name start in the order encode, generate, gradient, *)
(* display, save; a prompt follows a name only when its save has written   *)
(* the file; a save that fails ends main, and after a failure nothing      *)
(* happens: no prompt, no stage, no retry.                                 *)
C9_PipelineOrder ==
    [][ /\ IsPrefix(stages', Pipeline)
        /\ (stages' # stages /\ stages' # <<>> => stages' = SubSeq(Pipeline, 1, Len(stages) + 1))
        /\ (pc # "prompt" /\ pc' = "prompt" =>
                pc = "save" /\ stages' = Pipeline /\ files' = files + 1)
        /\ (pc = "save" /\ files' = files => pc' = "crashed")
        /\ pc # "crashed"
      ]_vars

\* the second name's save fails after the first name's file was written
C9_Witness ==
    /\ pc = "crashed"
    /\ stages = Pipeline
    /\ inputs = 2
    /\ files = 1

(* C10: a cell that is not counted in one round is not counted in any      *)
(* later round: at every point of the loop a cell's count is the number of *)
(* rounds before its first uncounted round (0 if that was round 1), or the *)
(* number of rounds run if it was always counted.                          *)
C10_DivergenceAbsorbing ==
    pc = "loop" =>
        \A c \in Cells :
            fractal[c] = IF first_skip[c] = 0 THEN i ELSE first_skip[c] - 1

=============================================================================
